---- MODULE Spec2Model ----
(***************************************************************************)
(* Extreme-weather classification (src/extreme_weather.py), the alert      *)
(* system (src/alert_system.py) and the remote-call fallback of the        *)
(* predictor (src/predictor.py) of the weather_prediction package.         *)
(*                                                                         *)
(* Numbers.  Observation fields are Python numbers compared with the       *)
(* literals 32.7 and 41.5, so every observation value and every threshold  *)
(* is written in TENTHS of its unit: wind speed 32.7 m/s is 327, pressure  *)
(* 980 hPa is 9800, temperature -10 C is -100, precipitation 49.9 mm/h is  *)
(* 499.  Severities, alert levels and limits are plain integers.           *)
(*                                                                         *)
(* Dictionaries are functions whose DOMAIN is the set of keys present, so  *)
(* an absent key is a key outside DOMAIN and dict.get(k, default) is Get.  *)
(*                                                                         *)
(* Labels.  The Chinese labels, descriptions and suggestions of the source *)
(* are written in English, one distinct string per distinct source string  *)
(* (typhoon tiers: "super typhoon", "strong typhoon", "typhoon", "tropical *)
(* storm"; rain tiers: "extraordinary rainstorm", "severe rainstorm",      *)
(* "rainstorm", "heavy rain"; and so on).  A formatted description is the  *)
(* tuple of its fixed words and the values formatted into it.              *)
(*                                                                         *)
(* Time.  now counts clock ticks; strftime('%Y%m%d%H%M%S') keeps the       *)
(* second a tick falls in, isoformat() keeps the tick itself.              *)
(***************************************************************************)
EXTENDS Integers, Sequences, FiniteSets, TLC

VARIABLES
    weather_data,      \* the observation handed to the detector
    op,                \* the operation that ran last
    ret,               \* the value that operation returned
    detection_result,  \* the argument of issue_alert, when it ran last
    args,              \* the arguments of the history query or prediction that ran last
    alert_config,      \* WeatherAlertSystem.alert_config (sink toggles)
    alert_history,     \* WeatherAlertSystem.alert_history
    console,           \* bulletin messages echoed by the console sink
    files,             \* outputs/alerts: alert_id -> [json, txt]
    log,               \* lines logged or printed by the last operation
    now                \* wall clock, in ticks

vars == <<weather_data, op, ret, detection_result, args, alert_config,
          alert_history, console, files, log, now>>

detector_vars == <<weather_data>>
alert_vars == <<detection_result, args, alert_config, alert_history, console, files>>

----------------------------------------------------------------------------
(* Bounds of the model *)

MaxHistory == 2        \* issue_alert is not called on a longer history
MaxAlerts == 5         \* the same, where the history is queried and cleared
MaxLimit == 3          \* largest explicit limit given to get_alert_history
MaxTime == 2           \* the clock stops ticking here
TicksPerSecond == 2    \* clock ticks in one second of strftime('%S')
MaxFreeNoise == 4      \* most time points whose temperature changes are drawn freely

----------------------------------------------------------------------------
(* Python helpers *)

\* variant: an absent key reads as zero, whatever the default
Get_zero_default(d, k, default) == IF k \in DOMAIN d THEN d[k] ELSE 0

\* dict.get(k, default)
Get(d, k, default) == IF k \in DOMAIN d THEN d[k] ELSE default

\* min(a, b) and max(a, b)
Min(a, b) == IF a < b THEN a ELSE b
Max(a, b) == IF a > b THEN a ELSE b

\* variant: the severity of the first detection instead of the largest
max_severity_first(detections) == detections[1].severity

\* max(d["severity"] for d in detections), detections non-empty
RECURSIVE max_severity_of(_)
max_severity_of(detections) ==
    IF Len(detections) = 1 THEN detections[1].severity
    ELSE Max(detections[1].severity, max_severity_of(Tail(detections)))

----------------------------------------------------------------------------
(* config.py *)

EXTREME_WEATHER_THRESHOLDS ==
    [ typhoon          |-> [wind_speed |-> 327, pressure |-> 9800],
      heavy_rain       |-> [precipitation |-> 500, duration |-> 3],
      high_temperature |-> [temperature |-> 370, duration |-> 3],
      low_temperature  |-> [temperature |-> -100, duration |-> 2],
      heavy_snow       |-> [snowfall |-> 100, duration |-> 12] ]

ALERT_CONFIG ==
    [ enable_email |-> FALSE, enable_sms |-> FALSE,
      enable_console |-> TRUE, enable_file |-> TRUE ]

----------------------------------------------------------------------------
(* extreme_weather.py: ExtremeWeatherDetector *)

thresholds == EXTREME_WEATHER_THRESHOLDS

\* ---- detect_typhoon ----
\* variant: the wind threshold is exclusive
typhoon_detected_exclusive(wind_speed, pressure) ==
    \/ wind_speed > thresholds.typhoon.wind_speed
    \/ pressure < thresholds.typhoon.pressure

typhoon_detected(wind_speed, pressure) ==
    \/ wind_speed >= thresholds.typhoon.wind_speed
    \/ pressure < thresholds.typhoon.pressure

\* variant: a pressure-only trigger is ranked like a typhoon
typhoon_tier_flat(wind_speed) ==
    IF wind_speed >= 510 THEN [severity |-> 4, level_name |-> "super typhoon"]
    ELSE IF wind_speed >= 415 THEN [severity |-> 4, level_name |-> "strong typhoon"]
    ELSE [severity |-> 3, level_name |-> "typhoon"]

\* variant: a tropical storm is severity 1
typhoon_tier_from_1(wind_speed) ==
    IF wind_speed >= 510 THEN [severity |-> 4, level_name |-> "super typhoon"]
    ELSE IF wind_speed >= 415 THEN [severity |-> 4, level_name |-> "strong typhoon"]
    ELSE IF wind_speed >= 327 THEN [severity |-> 3, level_name |-> "typhoon"]
    ELSE [severity |-> 1, level_name |-> "tropical storm"]

typhoon_tier(wind_speed) ==
    IF wind_speed >= 510 THEN [severity |-> 4, level_name |-> "super typhoon"]
    ELSE IF wind_speed >= 415 THEN [severity |-> 4, level_name |-> "strong typhoon"]
    ELSE IF wind_speed >= 327 THEN [severity |-> 3, level_name |-> "typhoon"]
    ELSE [severity |-> 2, level_name |-> "tropical storm"]

typhoon_suggestions ==
    << "stop outdoor activities at once", "close doors and windows, reinforce facilities",
       "stock emergency supplies", "follow official warnings",
       "move to a safe place if necessary" >>

detect_typhoon(wd) ==
    LET wind_speed == Get(wd, "wind_speed", 0)
        pressure == Get(wd, "pressure", 10130)
        tier == typhoon_tier(wind_speed)
    IN  IF typhoon_detected(wind_speed, pressure)
        THEN [ detected |-> TRUE, type |-> "typhoon", type_name |-> "typhoon",
               severity |-> tier.severity, level |-> tier.level_name,
               wind_speed |-> wind_speed, pressure |-> pressure,
               description |-> <<"detected", tier.level_name,
                                 "wind speed", wind_speed, "pressure", pressure>>,
               suggestions |-> typhoon_suggestions ]
        ELSE [ detected |-> FALSE, type |-> "typhoon" ]

\* ---- detect_heavy_rain ----
\* variant: the gate is the lowest tier boundary (25 mm/h) of the ladder
heavy_rain_detected_from_25(precipitation) ==
    precipitation >= 250

heavy_rain_detected(precipitation) ==
    precipitation >= thresholds.heavy_rain.precipitation

heavy_rain_tier(precipitation) ==
    IF precipitation >= 1000 THEN [severity |-> 4, level_name |-> "extraordinary rainstorm"]
    ELSE IF precipitation >= 500 THEN [severity |-> 3, level_name |-> "severe rainstorm"]
    ELSE IF precipitation >= 250 THEN [severity |-> 2, level_name |-> "rainstorm"]
    ELSE [severity |-> 1, level_name |-> "heavy rain"]

heavy_rain_suggestions ==
    << "stay in, keep away from low-lying areas", "beware of urban waterlogging",
       "check the drainage system", "prepare emergency lighting",
       "follow traffic information" >>

detect_heavy_rain(wd) ==
    LET precipitation == Get(wd, "precipitation", 0)
        tier == heavy_rain_tier(precipitation)
    IN  IF heavy_rain_detected(precipitation)
        THEN [ detected |-> TRUE, type |-> "heavy_rain", type_name |-> "rainstorm",
               severity |-> tier.severity, level |-> tier.level_name,
               precipitation |-> precipitation,
               description |-> <<"detected", tier.level_name,
                                 "precipitation", precipitation>>,
               suggestions |-> heavy_rain_suggestions ]
        ELSE [ detected |-> FALSE, type |-> "heavy_rain" ]

\* ---- detect_high_temperature (forecast_data is accepted and not read) ----
high_temperature_detected(temperature) ==
    temperature >= thresholds.high_temperature.temperature

\* variant: the 38 degree boundary is exclusive
high_temperature_tier_exclusive(temperature) ==
    IF temperature >= 400 THEN [severity |-> 4, level_name |-> "extreme heat"]
    ELSE IF temperature > 380 THEN [severity |-> 3, level_name |-> "severe heat"]
    ELSE [severity |-> 2, level_name |-> "heat"]

high_temperature_tier(temperature) ==
    IF temperature >= 400 THEN [severity |-> 4, level_name |-> "extreme heat"]
    ELSE IF temperature >= 380 THEN [severity |-> 3, level_name |-> "severe heat"]
    ELSE [severity |-> 2, level_name |-> "heat"]

high_temperature_suggestions ==
    << "avoid going out in the hottest hours", "drink water in time",
       "guard against heatstroke", "look after the elderly and children",
       "reduce strenuous exercise" >>

\* variant: the hottest forecast snapshot is classified when it is hotter
\* than the observation
detect_high_temperature_with_forecast(wd, forecast_data) ==
    LET observed == Get(wd, "temperature", 250)
        temperature == IF forecast_data /= <<>>
                       THEN Max(observed, Get(forecast_data[1], "temperature", 250))
                       ELSE observed
        tier == high_temperature_tier(temperature)
    IN  IF high_temperature_detected(temperature)
        THEN [ detected |-> TRUE, type |-> "high_temperature", type_name |-> "heat",
               severity |-> tier.severity, level |-> tier.level_name,
               temperature |-> temperature,
               description |-> <<"detected", tier.level_name,
                                 "temperature", temperature>>,
               suggestions |-> high_temperature_suggestions ]
        ELSE [ detected |-> FALSE, type |-> "high_temperature" ]

detect_high_temperature(wd, forecast_data) ==
    LET temperature == Get(wd, "temperature", 250)
        tier == high_temperature_tier(temperature)
    IN  IF high_temperature_detected(temperature)
        THEN [ detected |-> TRUE, type |-> "high_temperature", type_name |-> "heat",
               severity |-> tier.severity, level |-> tier.level_name,
               temperature |-> temperature,
               description |-> <<"detected", tier.level_name,
                                 "temperature", temperature>>,
               suggestions |-> high_temperature_suggestions ]
        ELSE [ detected |-> FALSE, type |-> "high_temperature" ]

\* ---- detect_low_temperature (forecast_data is accepted and not read) ----
\* variant: the threshold is exclusive
low_temperature_detected_exclusive(temperature) ==
    temperature < thresholds.low_temperature.temperature

low_temperature_detected(temperature) ==
    temperature <= thresholds.low_temperature.temperature

\* variant: the tiers in the opposite order
low_temperature_tier_inverted(temperature) ==
    IF temperature <= -200 THEN [severity |-> 2, level_name |-> "cold"]
    ELSE IF temperature <= -150 THEN [severity |-> 3, level_name |-> "severe cold"]
    ELSE [severity |-> 4, level_name |-> "extreme cold"]

low_temperature_tier(temperature) ==
    IF temperature <= -200 THEN [severity |-> 4, level_name |-> "extreme cold"]
    ELSE IF temperature <= -150 THEN [severity |-> 3, level_name |-> "severe cold"]
    ELSE [severity |-> 2, level_name |-> "cold"]

low_temperature_suggestions ==
    << "keep warm, prevent frostbite", "check heating facilities",
       "protect water pipes from freezing", "shorten outdoor activities",
       "look after vulnerable groups" >>

detect_low_temperature(wd, forecast_data) ==
    LET temperature == Get(wd, "temperature", 250)
        tier == low_temperature_tier(temperature)
    IN  IF low_temperature_detected(temperature)
        THEN [ detected |-> TRUE, type |-> "low_temperature", type_name |-> "cold",
               severity |-> tier.severity, level |-> tier.level_name,
               temperature |-> temperature,
               description |-> <<"detected", tier.level_name,
                                 "temperature", temperature>>,
               suggestions |-> low_temperature_suggestions ]
        ELSE [ detected |-> FALSE, type |-> "low_temperature" ]

\* ---- detect_heavy_snow ----
heavy_snow_detected(snowfall) ==
    snowfall >= thresholds.heavy_snow.snowfall

\* variant: the 20 mm boundary is exclusive
heavy_snow_tier_exclusive(snowfall) ==
    IF snowfall >= 300 THEN [severity |-> 4, level_name |-> "extraordinary blizzard"]
    ELSE IF snowfall > 200 THEN [severity |-> 3, level_name |-> "severe blizzard"]
    ELSE IF snowfall >= 100 THEN [severity |-> 2, level_name |-> "blizzard"]
    ELSE [severity |-> 1, level_name |-> "heavy snow"]

heavy_snow_tier(snowfall) ==
    IF snowfall >= 300 THEN [severity |-> 4, level_name |-> "extraordinary blizzard"]
    ELSE IF snowfall >= 200 THEN [severity |-> 3, level_name |-> "severe blizzard"]
    ELSE IF snowfall >= 100 THEN [severity |-> 2, level_name |-> "blizzard"]
    ELSE [severity |-> 1, level_name |-> "heavy snow"]

heavy_snow_suggestions ==
    << "go out less, mind traffic safety", "clear snow, prevent icy roads",
       "guard against slipping and freezing", "check power and heating facilities",
       "stock daily necessities" >>

detect_heavy_snow(wd) ==
    LET snowfall == Get(wd, "snowfall", 0)
        tier == heavy_snow_tier(snowfall)
    IN  IF heavy_snow_detected(snowfall)
        THEN [ detected |-> TRUE, type |-> "heavy_snow", type_name |-> "heavy snow",
               severity |-> tier.severity, level |-> tier.level_name,
               snowfall |-> snowfall,
               description |-> <<"detected", tier.level_name,
                                 "snowfall", snowfall>>,
               suggestions |-> heavy_snow_suggestions ]
        ELSE [ detected |-> FALSE, type |-> "heavy_snow" ]

\* ---- api_client.detect_extreme_weather: the remote call succeeds or fails ----
ApiOutcomes ==
    { [success |-> TRUE, detection |-> "remote analysis"],
      [success |-> FALSE, error |-> "remote call failed"] }

_detect_with_api(wd, outcome) == outcome

\* ---- detect_all_extremes ----
\* the detections list: each detector's result is appended when it detected
\* variant: heavy snow is checked first
collect_detections_snow_first(wd, forecast_data) ==
    LET keep(d) == IF d.detected THEN <<d>> ELSE <<>>
    IN  keep(detect_heavy_snow(wd))
        \o keep(detect_typhoon(wd))
        \o keep(detect_heavy_rain(wd))
        \o keep(detect_high_temperature(wd, forecast_data))
        \o keep(detect_low_temperature(wd, forecast_data))

collect_detections(wd, forecast_data) ==
    LET keep(d) == IF d.detected THEN <<d>> ELSE <<>>
    IN  keep(detect_typhoon(wd))
        \o keep(detect_heavy_rain(wd))
        \o keep(detect_high_temperature(wd, forecast_data))
        \o keep(detect_low_temperature(wd, forecast_data))
        \o keep(detect_heavy_snow(wd))

\* "update the overall result": has_extreme and max_severity
overall(detections) ==
    IF detections /= <<>>
    THEN [has_extreme |-> TRUE, max_severity |-> max_severity_of(detections)]
    ELSE [has_extreme |-> FALSE, max_severity |-> 0]

detect_all_extremes(wd, forecast_data, outcome, clock) ==
    LET detections == collect_detections(wd, forecast_data)
        api_detection == _detect_with_api(wd, outcome)
        base == [ timestamp |-> clock, current_weather |-> wd,
                  detections |-> detections,
                  has_extreme |-> overall(detections).has_extreme,
                  max_severity |-> overall(detections).max_severity ]
    IN  IF api_detection.success
        THEN [ k \in DOMAIN base \cup {"ai_analysis"} |->
                 IF k = "ai_analysis" THEN api_detection.detection ELSE base[k] ]
        ELSE base

----------------------------------------------------------------------------
(* utils/helpers.py *)

get_alert_level_name(level) ==
    IF level = 1 THEN "blue alert (general)"
    ELSE IF level = 2 THEN "yellow alert (heavy)"
    ELSE IF level = 3 THEN "orange alert (severe)"
    ELSE IF level = 4 THEN "red alert (very severe)"
    ELSE "unknown level"

\* json.dump / json.load.  A JSON object is written as the list of its
\* members <<key, value>> in the dict's insertion order, an array as the list
\* of its elements; strings and integers are written as themselves.
json_object(d, keys) == [i \in 1..Len(keys) |-> <<keys[i], d[keys[i]]>>]

json_array_of_objects(list, keys) ==
    [i \in 1..Len(list) |-> json_object(list[i], keys)]

\* the dict a parsed JSON object gives back (a repeated key keeps its last value)
parse_object(members) ==
    [ k \in {members[i][1] : i \in 1..Len(members)} |->
        LET last == CHOOSE i \in 1..Len(members) :
                      /\ members[i][1] = k
                      /\ \A j \in 1..Len(members) : members[j][1] = k => j <= i
        IN  members[last][2] ]

EventKeys == <<"type", "severity", "description", "level">>
AlertKeys == <<"alert_id", "timestamp", "level", "level_name", "severity",
               "events", "message", "suggestions">>

\* save_json(alert, path): the text of <alert_id>.json
save_json(alert) ==
    json_object([alert EXCEPT !.events = json_array_of_objects(alert.events, EventKeys)],
                AlertKeys)

\* load_json(path) of such a file
load_json(text) ==
    LET top == parse_object(text)
    IN  [top EXCEPT !.events = [i \in 1..Len(top.events) |-> parse_object(top.events[i])]]

----------------------------------------------------------------------------
(* alert_system.py: WeatherAlertSystem *)

\* variant: the severity is used as the level without clamping
_determine_alert_level_unclamped(severity) == severity

_determine_alert_level(severity) == Min(4, Max(1, severity))

\* strftime('%Y%m%d%H%M%S') of the clock: the second the tick falls in
alert_id_of(clock) == <<"ALERT", clock \div TicksPerSecond>>

\* variant: the event is labelled with the hazard kind, not the hazard label
alert_event_by_kind(detection) ==
    [ type |-> Get(detection, "type", "unknown"),
      severity |-> detection["severity"],
      description |-> detection["description"],
      level |-> Get(detection, "level", "unknown") ]

alert_event(detection) ==
    [ type |-> detection["type_name"],
      severity |-> detection["severity"],
      description |-> detection["description"],
      level |-> Get(detection, "level", "unknown") ]

RECURSIVE collect_suggestions(_)
collect_suggestions(detections) ==
    IF detections = <<>> THEN <<>>
    ELSE Get(Head(detections), "suggestions", <<>>)
         \o collect_suggestions(Tail(detections))

\* the message text: header, numbered events, the suggestions enumerated
\* from set(alert['suggestions']) (in the interpreter's hash order, kept here
\* as the set), and the closing reminder
_format_alert_message(alert) ==
    [ title |-> alert.level_name,
      alert_id |-> alert.alert_id,
      timestamp |-> alert.timestamp,
      level_name |-> alert.level_name,
      events |-> [ i \in 1..Len(alert.events) |->
                     <<i, alert.events[i].type, alert.events[i].level,
                       alert.events[i].description>> ],
      suggestions |-> { alert.suggestions[i] : i \in 1..Len(alert.suggestions) },
      closing |-> "watch the weather closely and take precautions" ]

_create_alert_message(dr, clock) ==
    LET detections == Get(dr, "detections", <<>>)
        max_severity == Get(dr, "max_severity", 1)
        alert_level == _determine_alert_level(max_severity)
        level_name == get_alert_level_name(alert_level)
        alert == [ alert_id |-> alert_id_of(clock),
                   timestamp |-> clock,
                   level |-> alert_level,
                   level_name |-> level_name,
                   severity |-> max_severity,
                   events |-> [i \in 1..Len(detections) |-> alert_event(detections[i])],
                   message |-> "",
                   suggestions |-> collect_suggestions(detections) ]
    IN  [alert EXCEPT !.message = _format_alert_message(alert)]

\* variant: the console echo follows the file toggle
console_after_by_file_toggle(alert, cfg, out) ==
    IF Get(cfg, "enable_file", TRUE) THEN Append(out, alert.message) ELSE out

\* _publish_alert: what each sink leaves behind
console_after(alert, cfg, out) ==
    IF Get(cfg, "enable_console", TRUE) THEN Append(out, alert.message) ELSE out

\* _save_alert_to_file: <alert_id>.json and <alert_id>.txt, overwriting
_save_alert_to_file(alert, dir) ==
    LET json_path == <<alert.alert_id, "json">>
        txt_path == <<alert.alert_id, "txt">>
    IN  {f \in dir : f.path \notin {json_path, txt_path}}
        \cup { [path |-> json_path, content |-> save_json(alert)],
               [path |-> txt_path, content |-> alert.message] }

files_after(alert, cfg, dir) ==
    IF Get(cfg, "enable_file", TRUE) THEN _save_alert_to_file(alert, dir) ELSE dir

publish_log(alert, cfg) ==
    (IF Get(cfg, "enable_console", TRUE)
       THEN << <<"INFO", "alert printed to console">> >> ELSE <<>>)
    \o (IF Get(cfg, "enable_file", TRUE)
          THEN << <<"INFO", "alert saved to file", alert.alert_id>> >> ELSE <<>>)
    \o (IF Get(cfg, "enable_email", FALSE)
          THEN << <<"WARNING", "email alerts not configured">> >> ELSE <<>>)
    \o (IF Get(cfg, "enable_sms", FALSE)
          THEN << <<"WARNING", "sms alerts not configured">> >> ELSE <<>>)

\* variant: an absent has_extreme counts as true
no_extreme_default_true(dr) == ~Get(dr, "has_extreme", TRUE)

\* issue_alert's early return: has_extreme false or absent
no_extreme(dr) == ~Get(dr, "has_extreme", FALSE)

\* variant: the history keeps only the latest alert
history_after_latest_only(alert, history) == <<alert>>

\* self.alert_history.append(alert)
history_after(alert, history) == Append(history, alert)

NotIssued == [issued |-> FALSE, message |-> "no extreme weather alert at present"]

\* list[start:] of Python: a negative start counts from the end, and both
\* ends are clipped to the list
slice_from(list, start) ==
    LET n == Len(list)
        first == IF start < 0 THEN Max(n + start, 0) ELSE Min(start, n)
    IN  SubSeq(list, first + 1, n)

\* variant: the first limit entries, self.alert_history[:limit]
get_alert_history_head(history, limit) ==
    SubSeq(history, 1, Min(limit, Len(history)))

\* get_alert_history(limit): self.alert_history[-limit:]
get_alert_history(history, limit) == slice_from(history, 0 - limit)

\* the limit parameter's default
DefaultLimit == 10

\* variant: the latest alert survives the clear
clear_alert_history_keep_last(history) ==
    IF history = <<>> THEN <<>> ELSE <<history[Len(history)]>>

\* clear_alert_history: self.alert_history = []
clear_alert_history(history) == <<>>

\* variant: counts[key] = 1
count_one_reset(counts, key) ==
    [ k \in DOMAIN counts \cup {key} |-> IF k = key THEN 1 ELSE counts[k] ]

\* counts[key] = counts.get(key, 0) + 1
count_one(counts, key) ==
    [ k \in DOMAIN counts \cup {key} |->
        IF k = key THEN Get(counts, key, 0) + 1 ELSE counts[k] ]

\* the loop over the alerts that counts their level_name
RECURSIVE level_counts(_)
level_counts(alerts) ==
    IF alerts = <<>> THEN <<>>
    ELSE count_one(level_counts(SubSeq(alerts, 1, Len(alerts) - 1)),
                   alerts[Len(alerts)].level_name)

\* the inner loop over one alert's events, counting their type
RECURSIVE count_events(_, _)
count_events(counts, events) ==
    IF events = <<>> THEN counts
    ELSE count_one(count_events(counts, SubSeq(events, 1, Len(events) - 1)),
                   events[Len(events)].type)

\* the outer loop over the alerts
RECURSIVE event_counts(_)
event_counts(alerts) ==
    IF alerts = <<>> THEN <<>>
    ELSE count_events(event_counts(SubSeq(alerts, 1, Len(alerts) - 1)),
                      Get(alerts[Len(alerts)], "events", <<>>))

\* a date argument left out (None)
NoDate == "<None>"

\* variant: the empty history is not told apart
no_alerts_never(filtered_alerts) == FALSE

\* "if not filtered_alerts": the history is empty
no_alerts(filtered_alerts) == filtered_alerts = <<>>

EmptyReport == [total_alerts |-> 0, message |-> "no alerts in the period"]

ReportKeys == <<"total_alerts", "level_distribution", "event_distribution",
                "period", "generated_at">>

\* variant: a period, when given, filters the history (no bulletin of a run
\* is stamped inside it)
generate_alert_report_filtering(history, start_date, end_date, clock) ==
    LET filtered_alerts == IF start_date = NoDate /\ end_date = NoDate
                           THEN history ELSE <<>>
    IN  IF no_alerts(filtered_alerts) THEN EmptyReport
        ELSE [ total_alerts |-> Len(filtered_alerts),
               level_distribution |-> level_counts(filtered_alerts),
               event_distribution |-> event_counts(filtered_alerts),
               period |-> [ start |-> IF start_date = NoDate THEN "start" ELSE start_date,
                            end |-> IF end_date = NoDate THEN "end" ELSE end_date ],
               generated_at |-> clock ]

\* generate_alert_report(start_date, end_date): the value returned
generate_alert_report(history, start_date, end_date, clock) ==
    LET filtered_alerts == history
    IN  IF no_alerts(filtered_alerts) THEN EmptyReport
        ELSE [ total_alerts |-> Len(filtered_alerts),
               level_distribution |-> level_counts(filtered_alerts),
               event_distribution |-> event_counts(filtered_alerts),
               period |-> [ start |-> IF start_date = NoDate THEN "start" ELSE start_date,
                            end |-> IF end_date = NoDate THEN "end" ELSE end_date ],
               generated_at |-> clock ]

\* strftime('%Y%m%d_%H%M%S') of the clock names the report file
report_path(clock) == <<"alert_report", clock \div TicksPerSecond, "json">>

\* save_json(report, report_path), when the history was not empty
report_saved(history, report, clock, dir) ==
    IF no_alerts(history) THEN dir
    ELSE {f \in dir : f.path /= report_path(clock)}
         \cup { [path |-> report_path(clock),
                 content |-> json_object(report, ReportKeys)] }

----------------------------------------------------------------------------
(* Observations the detector is run on: every field is absent or takes a  *)
(* value on either side of each threshold the code compares it with.      *)

WindSpeeds == {0, 326, 327, 414, 415, 509, 510}
Pressures == {9799, 9800}
Precipitations == {249, 499, 500, 999, 1000}
Temperatures == {-200, -199, -150, -149, -100, -99, 369, 370, 379, 380, 399, 400}
Snowfalls == {99, 100, 199, 200, 299, 300}

\* a field that is absent ({}) or present with one value ({v})
Optional(values) == {{}} \cup {{v} : v \in values}

\* the dict holding exactly the fields that are present
Observation(w, p, r, t, s) ==
    LET opt == [wind_speed |-> w, pressure |-> p, precipitation |-> r,
                temperature |-> t, snowfall |-> s]
        keys == {k \in DOMAIN opt : opt[k] /= {}}
    IN  [k \in keys |-> CHOOSE v \in opt[k] : TRUE]

Observations ==
    { Observation(w, p, r, t, s) :
        w \in Optional(WindSpeeds), p \in Optional(Pressures),
        r \in Optional(Precipitations), t \in Optional(Temperatures),
        s \in Optional(Snowfalls) }

\* forecast_data arguments: None, an empty list, a list of snapshots
Forecasts == { <<>>, <<[temperature |-> 400]>>, <<[temperature |-> -200]>> }

NoCall == [called |-> FALSE]

----------------------------------------------------------------------------
(* The detector run on one observation *)

InitDetect ==
    /\ weather_data \in Observations
    /\ op = "init"
    /\ ret = NoCall
    /\ detection_result = NoCall
    /\ args = NoCall
    /\ alert_config = ALERT_CONFIG
    /\ alert_history = <<>>
    /\ console = <<>>
    /\ files = {}
    /\ log = <<>>
    /\ now = 0

DetectTyphoon ==
    /\ op' = "detect_typhoon"
    /\ ret' = detect_typhoon(weather_data)
    /\ log' = <<>>
    /\ UNCHANGED <<detector_vars, alert_vars, now>>

DetectHeavyRain ==
    /\ op' = "detect_heavy_rain"
    /\ ret' = detect_heavy_rain(weather_data)
    /\ log' = <<>>
    /\ UNCHANGED <<detector_vars, alert_vars, now>>

DetectHighTemperature ==
    /\ \E forecast_data \in Forecasts :
         ret' = detect_high_temperature(weather_data, forecast_data)
    /\ op' = "detect_high_temperature"
    /\ log' = <<>>
    /\ UNCHANGED <<detector_vars, alert_vars, now>>

DetectLowTemperature ==
    /\ \E forecast_data \in Forecasts :
         ret' = detect_low_temperature(weather_data, forecast_data)
    /\ op' = "detect_low_temperature"
    /\ log' = <<>>
    /\ UNCHANGED <<detector_vars, alert_vars, now>>

DetectHeavySnow ==
    /\ op' = "detect_heavy_snow"
    /\ ret' = detect_heavy_snow(weather_data)
    /\ log' = <<>>
    /\ UNCHANGED <<detector_vars, alert_vars, now>>

\* api_client.detect_extreme_weather prints the exception it catches
DetectAllExtremes ==
    /\ \E forecast_data \in Forecasts, outcome \in ApiOutcomes :
         /\ ret' = detect_all_extremes(weather_data, forecast_data, outcome, now)
         /\ log' = << <<"INFO", "detection started">> >>
                   \o (IF outcome.success THEN <<>>
                       ELSE << <<"STDOUT", "extreme weather detection failed",
                                 outcome.error>> >>)
                   \o << <<"INFO", "detection complete", Len(ret'.detections)>> >>
    /\ op' = "detect_all_extremes"
    /\ UNCHANGED <<detector_vars, alert_vars, now>>

NextDetect ==
    \/ DetectTyphoon
    \/ DetectHeavyRain
    \/ DetectHighTemperature
    \/ DetectLowTemperature
    \/ DetectHeavySnow
    \/ DetectAllExtremes

SpecDetect == InitDetect /\ [][NextDetect]_vars

----------------------------------------------------------------------------
(* The alert system: issue_alert called on detection results as the clock  *)
(* advances.                                                               *)

\* observations whose detection results are handed to issue_alert
AlertObservations ==
    { [humidity |-> 650],
      [snowfall |-> 200],
      [pressure |-> 9799, precipitation |-> 1000, temperature |-> 380] }

\* a hand-built detection, as in the module's own __main__ test
TestDetection ==
    [ type_name |-> "rainstorm", severity |-> 3, level |-> "severe rainstorm",
      description |-> <<"detected", "severe rainstorm", "precipitation", 650>>,
      suggestions |-> <<"stay in", "beware of urban waterlogging",
                        "check the drainage system">> ]

\* a second hand-built detection: no tier label, one suggestion in common
FloodDetection ==
    [ type_name |-> "waterlogging", severity |-> 2,
      description |-> <<"detected", "waterlogging">>,
      suggestions |-> <<"check the drainage system", "move vehicles to high ground">> ]

\* hand-built detection results: max_severity out of range or absent,
\* has_extreme false or absent
CraftedResults ==
    { [has_extreme |-> TRUE, max_severity |-> m, detections |-> <<TestDetection>>] :
        m \in {-1, 0, 5} }
    \cup { [has_extreme |-> TRUE, detections |-> <<TestDetection, FloodDetection>>],
           [has_extreme |-> FALSE, max_severity |-> 3, detections |-> <<TestDetection>>],
           [max_severity |-> 3, detections |-> <<TestDetection>>] }

DetectionResults(clock) ==
    { detect_all_extremes(wd, <<>>, outcome, clock) :
        wd \in AlertObservations, outcome \in ApiOutcomes }
    \cup CraftedResults

\* sink toggles the system may be configured with
AlertConfigs ==
    { ALERT_CONFIG,
      [enable_email |-> TRUE, enable_sms |-> TRUE,
       enable_console |-> TRUE, enable_file |-> TRUE],
      [enable_email |-> TRUE, enable_sms |-> FALSE,
       enable_console |-> FALSE, enable_file |-> TRUE],
      [enable_email |-> FALSE, enable_sms |-> TRUE,
       enable_console |-> FALSE, enable_file |-> FALSE] }

Init ==
    /\ weather_data = [humidity |-> 650]
    /\ op = "init"
    /\ ret = NoCall
    /\ detection_result = NoCall
    /\ args = NoCall
    /\ alert_config \in AlertConfigs
    /\ alert_history = <<>>
    /\ console = <<>>
    /\ files = {}
    /\ log = <<>>
    /\ now = 0

\* issue_alert(detection_result), on a history shorter than max_len
issue_alert(dr, max_len) ==
    /\ op' = "issue_alert"
    /\ detection_result' = dr
    /\ args' = NoCall
    /\ IF no_extreme(dr)
       THEN /\ ret' = NotIssued
            /\ log' = << <<"INFO", "no extreme weather, no alert needed">> >>
            /\ UNCHANGED <<alert_history, console, files>>
       ELSE LET alert == _create_alert_message(dr, now)
            IN  /\ Len(alert_history) < max_len
                /\ console' = console_after(alert, alert_config, console)
                /\ files' = files_after(alert, alert_config, files)
                /\ alert_history' = history_after(alert, alert_history)
                /\ log' = << <<"INFO", "preparing alert">> >>
                          \o publish_log(alert, alert_config)
                          \o << <<"INFO", "alert issued", alert.level_name>> >>
                /\ ret' = alert
    /\ UNCHANGED <<weather_data, alert_config, now>>

IssueAlert ==
    \E dr \in DetectionResults(now) : issue_alert(dr, MaxHistory)

\* time passes between calls
Tick ==
    /\ now < MaxTime
    /\ now' = now + 1
    /\ UNCHANGED <<weather_data, op, ret, detection_result, args, alert_config,
                   alert_history, console, files, log>>

Next ==
    \/ IssueAlert
    \/ Tick

Spec == Init /\ [][Next]_vars

----------------------------------------------------------------------------
(* The alert history: alerts issued, queried, reported and cleared, on a   *)
(* system configured with every sink off.                                  *)

QuietConfig ==
    [ enable_email |-> FALSE, enable_sms |-> FALSE,
      enable_console |-> FALSE, enable_file |-> FALSE ]

HistoryObservations ==
    { [humidity |-> 650],
      [snowfall |-> 200],
      [pressure |-> 9799, precipitation |-> 1000, temperature |-> 380] }

\* their detection results, the remote analysis being unavailable
HistoryResults(clock) ==
    { detect_all_extremes(wd, <<>>, [success |-> FALSE, error |-> "remote call failed"],
                          clock) :
        wd \in HistoryObservations }

\* keyword arguments of get_alert_history: limit left out, or 0..MaxLimit
LimitArgs == {[limit |-> n] : n \in 0..MaxLimit} \cup {<<>>}

DateArgs == { [start_date |-> NoDate, end_date |-> NoDate],
              [start_date |-> "2025-06-01", end_date |-> "2025-06-30"] }

InitHistory ==
    /\ weather_data = [humidity |-> 650]
    /\ op = "init"
    /\ ret = NoCall
    /\ detection_result = NoCall
    /\ args = NoCall
    /\ alert_config = QuietConfig
    /\ alert_history = <<>>
    /\ console = <<>>
    /\ files = {}
    /\ log = <<>>
    /\ now = 0

HistoryIssueAlert ==
    \E dr \in HistoryResults(now) : issue_alert(dr, MaxAlerts)

GetAlertHistory ==
    \E a \in LimitArgs :
        /\ op' = "get_alert_history"
        /\ args' = a
        /\ ret' = get_alert_history(alert_history, Get(a, "limit", DefaultLimit))
        /\ detection_result' = NoCall
        /\ log' = <<>>
        /\ UNCHANGED <<weather_data, alert_config, alert_history, console, files, now>>

ClearAlertHistory ==
    /\ op' = "clear_alert_history"
    /\ args' = NoCall
    /\ alert_history' = clear_alert_history(alert_history)
    /\ ret' = NoCall
    /\ detection_result' = NoCall
    /\ log' = << <<"INFO", "alert history cleared">> >>
    /\ UNCHANGED <<weather_data, alert_config, console, files, now>>

GenerateAlertReport ==
    \E a \in DateArgs :
        LET report == generate_alert_report(alert_history, a.start_date, a.end_date, now)
        IN  /\ op' = "generate_alert_report"
            /\ args' = a
            /\ ret' = report
            /\ files' = report_saved(alert_history, report, now, files)
            /\ detection_result' = NoCall
            /\ log' = << <<"INFO", "generating alert report">> >>
                      \o (IF no_alerts(alert_history) THEN <<>>
                          ELSE << <<"INFO", "alert report generated", report_path(now)>> >>)
            /\ UNCHANGED <<weather_data, alert_config, alert_history, console, now>>

NextHistory ==
    \/ HistoryIssueAlert
    \/ GetAlertHistory
    \/ ClearAlertHistory
    \/ GenerateAlertReport

SpecHistory == InitHistory /\ [][NextHistory]_vars

----------------------------------------------------------------------------
(* The sinks: issue_alert under every combination of the four toggles.     *)

AllAlertConfigs ==
    { [ enable_email |-> e, enable_sms |-> m,
        enable_console |-> c, enable_file |-> f ] :
        e \in BOOLEAN, m \in BOOLEAN, c \in BOOLEAN, f \in BOOLEAN }

SinkObservations ==
    { [humidity |-> 650],
      [snowfall |-> 200] }

SinkResults(clock) ==
    { detect_all_extremes(wd, <<>>, [success |-> FALSE, error |-> "remote call failed"],
                          clock) :
        wd \in SinkObservations }

InitSinks ==
    /\ weather_data = [humidity |-> 650]
    /\ op = "init"
    /\ ret = NoCall
    /\ detection_result = NoCall
    /\ args = NoCall
    /\ alert_config \in AllAlertConfigs
    /\ alert_history = <<>>
    /\ console = <<>>
    /\ files = {}
    /\ log = <<>>
    /\ now = 0

SinkIssueAlert ==
    \E dr \in SinkResults(now) : issue_alert(dr, MaxHistory)

NextSinks ==
    \/ SinkIssueAlert
    \/ Tick

SpecSinks == InitSinks /\ [][NextSinks]_vars

----------------------------------------------------------------------------
(* A failing file sink: one of the two writes of _save_alert_to_file       *)
(* raises (no space, no permission) and the exception leaves issue_alert.  *)

FileWrites == {"json", "txt"}

Raised == [raised |-> "OSError"]

\* _save_alert_to_file up to the write that raises: nothing when the json
\* write raises, the json file alone when the txt write raises
_save_alert_to_file_until(failing, alert, dir) ==
    LET json_path == <<alert.alert_id, "json">>
    IN  IF failing = "json" THEN dir
        ELSE {f \in dir : f.path /= json_path}
             \cup { [path |-> json_path, content |-> save_json(alert)] }

\* issue_alert when the file sink raises: the console sink has run, the
\* file sink has run up to the failing write, the email and SMS sinks, the
\* append to the history and the return are never reached
issue_alert_file_raises(dr, failing, max_len) ==
    LET alert == _create_alert_message(dr, now)
    IN  /\ ~no_extreme(dr)
        /\ Get(alert_config, "enable_file", TRUE)
        /\ Len(console) < max_len
        /\ op' = "issue_alert"
        /\ detection_result' = dr
        /\ args' = NoCall
        /\ console' = console_after(alert, alert_config, console)
        /\ files' = _save_alert_to_file_until(failing, alert, files)
        /\ alert_history' = alert_history
        /\ log' = << <<"INFO", "preparing alert">> >>
                  \o (IF Get(alert_config, "enable_console", TRUE)
                        THEN << <<"INFO", "alert printed to console">> >> ELSE <<>>)
        /\ ret' = Raised
        /\ UNCHANGED <<weather_data, alert_config, now>>

FailureConfigs ==
    { ALERT_CONFIG,
      [ enable_email |-> TRUE, enable_sms |-> FALSE,
        enable_console |-> FALSE, enable_file |-> TRUE ] }

InitFailure ==
    /\ weather_data = [humidity |-> 650]
    /\ op = "init"
    /\ ret = NoCall
    /\ detection_result = NoCall
    /\ args = NoCall
    /\ alert_config \in FailureConfigs
    /\ alert_history = <<>>
    /\ console = <<>>
    /\ files = {}
    /\ log = <<>>
    /\ now = 0

FailureIssueAlert ==
    \E dr \in SinkResults(now) : issue_alert(dr, MaxHistory)

IssueAlertFileRaises ==
    \E dr \in SinkResults(now), failing \in FileWrites :
        issue_alert_file_raises(dr, failing, MaxHistory)

NextFailure ==
    \/ FailureIssueAlert
    \/ IssueAlertFileRaises
    \/ Tick

SpecFailure == InitFailure /\ [][NextFailure]_vars

----------------------------------------------------------------------------
(* The workflow of main.py: an observation is classified and the result is *)
(* handed to issue_alert, on a system with every sink off.                 *)

InitWorkflow ==
    /\ weather_data \in Observations
    /\ op = "init"
    /\ ret = NoCall
    /\ detection_result = NoCall
    /\ args = NoCall
    /\ alert_config = QuietConfig
    /\ alert_history = <<>>
    /\ console = <<>>
    /\ files = {}
    /\ log = <<>>
    /\ now = 0

DetectThenIssueAlert ==
    \E forecast_data \in Forecasts, outcome \in ApiOutcomes :
        issue_alert(detect_all_extremes(weather_data, forecast_data, outcome, now),
                    MaxHistory)

NextWorkflow == DetectThenIssueAlert

SpecWorkflow == InitWorkflow /\ [][NextWorkflow]_vars

----------------------------------------------------------------------------
(* predictor.py: WeatherPredictor._predict_with_api.  The remote call is   *)
(* its outcome; the random draws of the local generator are its noise      *)
(* argument, one temperature change (in tenths) per time point.            *)

PREDICTION_HORIZONS ==
    ("1h" :> 1) @@ ("6h" :> 6) @@ ("1day" :> 1) @@ ("3day" :> 3) @@ ("1week" :> 7)
    @@ ("short_term" :> 6) @@ ("medium_term" :> 3) @@ ("long_term" :> 7)

\* horizon.endswith("h"), .endswith("day"), .endswith("week") on the keys
EndsWithH == {"1h", "6h"}
EndsWithDay == {"1day", "3day"}
EndsWithWeek == {"1week"}

time_point(clock, unit, n) == [from |-> clock, unit |-> unit, plus |-> n]

\* helpers.get_time_range: the time points of a horizon, now first
get_time_range(horizon, clock) ==
    LET points(count, unit, step) ==
            [i \in 1..(count + 1) |-> time_point(clock, unit, step * (i - 1))]
    IN  IF horizon = "short_term"
          THEN points(Get(PREDICTION_HORIZONS, "short_term", 6), "hours", 1)
        ELSE IF horizon = "medium_term"
          THEN points(Get(PREDICTION_HORIZONS, "medium_term", 3), "days", 1)
        ELSE IF horizon = "long_term"
          THEN points(Get(PREDICTION_HORIZONS, "long_term", 7), "days", 1)
        ELSE IF horizon \notin DOMAIN PREDICTION_HORIZONS THEN <<>>
        ELSE LET val == PREDICTION_HORIZONS[horizon]
             IN  IF horizon \in EndsWithH THEN points(val, "hours", 1)
                 ELSE IF horizon \in EndsWithDay THEN points(val, "days", 1)
                 ELSE IF horizon \in EndsWithWeek THEN points(val, "days", val)
                 ELSE <<>>

RECURSIVE base_temp_at(_, _, _)
\* base_temp when point i is generated: each earlier point moved it by
\* temp_change * 0.3
base_temp_at(base_temp, noise, i) ==
    IF i = 1 THEN base_temp
    ELSE base_temp_at(base_temp, noise, i - 1) + (noise[i - 1] * 3) \div 10

\* _generate_numerical_predictions: one prediction per time point.  The
\* temperature fields follow base_temp and the drawn change; every other
\* field of a prediction is an independent draw around its own base value.
_generate_numerical_predictions(current_data, horizon, clock, noise) ==
    LET time_points == get_time_range(horizon, clock)
        base_temp == Get(current_data, "temperature", 200)
    IN  [ i \in 1..Len(time_points) |->
            LET t == base_temp_at(base_temp, noise, i) + noise[i]
            IN  [ timestamp |-> time_points[i],
                  temperature |-> t,
                  temperature_max |-> t + 20,
                  temperature_min |-> t - 20 ] ]

RECURSIVE sum_temps(_, _)
sum_temps(predictions, squared) ==
    IF predictions = <<>> THEN 0
    ELSE LET t == predictions[1].temperature
         IN  (IF squared THEN t * t ELSE t) + sum_temps(Tail(predictions), squared)

\* _estimate_uncertainty: np.std of the predicted temperatures, kept as
\* n^2 times the variance (np.std is its square root over n); np.std of no
\* values is nan
_estimate_uncertainty(predictions) ==
    LET n == Len(predictions)
        s == sum_temps(predictions, FALSE)
    IN  [ confidence_level |-> 95,
          temperature_uncertainty |->
              IF n = 0 THEN [nan |-> TRUE]
              ELSE [n2_variance |-> n * sum_temps(predictions, TRUE) - s * s],
          method |-> "monte_carlo" ]

\* variant: a failed remote call is handed back to the caller
_predict_with_api_propagating(current_data, api_result, horizon, clock, noise) ==
    IF api_result.success
    THEN [ success |-> TRUE, method |-> "gemini_api",
           predictions |-> _generate_numerical_predictions(current_data, horizon, clock, noise) ]
    ELSE api_result

_predict_with_api(current_data, api_result, horizon, clock, noise) ==
    LET predictions == _generate_numerical_predictions(current_data, horizon, clock, noise)
    IN  IF api_result.success
        THEN [ success |-> TRUE,
               predictions |-> predictions,
               analysis |-> api_result.prediction,
               method |-> "gemini_api",
               uncertainty |-> _estimate_uncertainty(predictions) ]
        ELSE [ success |-> TRUE,
               predictions |-> predictions,
               analysis |-> "remote service unavailable, local predictions used",
               method |-> "fallback_numerical",
               uncertainty |-> _estimate_uncertainty(predictions),
               api_error |-> Get(api_result, "error", "<None>") ]

\* api_client.predict_weather: the remote answer, or the caught exception
predict_weather(horizon) ==
    { [success |-> TRUE, prediction |-> "remote forecast", horizon |-> horizon],
      [success |-> FALSE, error |-> "remote call failed"],
      [success |-> FALSE, error |-> "remote answer malformed"] }

PredictObservations ==
    { <<>>,
      [temperature |-> 250],
      [temperature |-> -50, humidity |-> 650] }

PredictHorizons == {"1h", "3day", "1week", "next_month"}

TempChanges == {-20, 0, 20}

\* the changes drawn for a horizon: one per time point; the long horizons
\* draw the same change at every point
Noise(horizon, clock) ==
    LET n == Len(get_time_range(horizon, clock))
    IN  IF n <= MaxFreeNoise THEN [1..n -> TempChanges]
        ELSE {[i \in 1..n |-> c] : c \in TempChanges}

InitPredict ==
    /\ weather_data \in PredictObservations
    /\ op = "init"
    /\ ret = NoCall
    /\ detection_result = NoCall
    /\ args = NoCall
    /\ alert_config = ALERT_CONFIG
    /\ alert_history = <<>>
    /\ console = <<>>
    /\ files = {}
    /\ log = <<>>
    /\ now = 0

PredictWithApi ==
    \E horizon \in PredictHorizons :
      \E api_result \in predict_weather(horizon), noise \in Noise(horizon, now) :
        /\ op' = "_predict_with_api"
        /\ args' = [horizon |-> horizon, api_result |-> api_result, noise |-> noise]
        /\ ret' = _predict_with_api(weather_data, api_result, horizon, now, noise)
        /\ log' = << <<"INFO", "predicting with the remote service", horizon>> >>
                  \o (IF api_result.success THEN <<>>
                      ELSE << <<"WARNING", "remote prediction failed",
                                Get(api_result, "error", "unknown error")>> >>)
        /\ UNCHANGED <<weather_data, detection_result, alert_config, alert_history,
                       console, files, now>>

NextPredict == PredictWithApi

SpecPredict == InitPredict /\ [][NextPredict]_vars

----------------------------------------------------------------------------
(* Properties of the detector, checked under SpecDetect *)

\* the observation's fields as the detectors read them
ObsWindSpeed ==
    IF "wind_speed" \in DOMAIN weather_data THEN weather_data["wind_speed"] ELSE 0
ObsPressure ==
    IF "pressure" \in DOMAIN weather_data THEN weather_data["pressure"] ELSE 10130
ObsPrecipitation ==
    IF "precipitation" \in DOMAIN weather_data THEN weather_data["precipitation"] ELSE 0
ObsTemperature ==
    IF "temperature" \in DOMAIN weather_data THEN weather_data["temperature"] ELSE 250
ObsSnowfall ==
    IF "snowfall" \in DOMAIN weather_data THEN weather_data["snowfall"] ELSE 0

\* C1: detect_typhoon reports detected=true exactly when wind_speed >= 32.7
\* or pressure < 980 (absent wind_speed is 0, absent pressure is 1013); with
\* wind_speed < 32.7 and pressure >= 980 it reports detected=false.
C1_TyphoonDetectedIff ==
    op = "detect_typhoon" =>
        /\ ret.detected <=> (ObsWindSpeed >= 327 \/ ObsPressure < 9800)
        /\ (ObsWindSpeed < 327 /\ ObsPressure >= 9800) => ~ret.detected

C1_Witness ==
    /\ op = "detect_typhoon"
    /\ "wind_speed" \in DOMAIN weather_data /\ weather_data["wind_speed"] = 326
    /\ "pressure" \in DOMAIN weather_data /\ weather_data["pressure"] = 9800
    /\ ~ret.detected

\* C2: a typhoon detection's severity and label follow the wind speed alone:
\* >= 51 is severity 4 "super typhoon", 41.5 up to 51 is severity 4 "strong
\* typhoon", 32.7 up to 41.5 is severity 3 "typhoon", and a trigger by
\* pressure < 980 alone (wind_speed < 32.7) is severity 2 "tropical storm".
C2_TyphoonTiers ==
    (op = "detect_typhoon" /\ ret.detected) =>
        /\ ObsWindSpeed >= 510 =>
             (ret.severity = 4 /\ ret.level = "super typhoon")
        /\ (415 <= ObsWindSpeed /\ ObsWindSpeed < 510) =>
             (ret.severity = 4 /\ ret.level = "strong typhoon")
        /\ (327 <= ObsWindSpeed /\ ObsWindSpeed < 415) =>
             (ret.severity = 3 /\ ret.level = "typhoon")
        /\ (ObsWindSpeed < 327) =>
             (ObsPressure < 9800 /\ ret.severity = 2 /\ ret.level = "tropical storm")

C2_Witness ==
    /\ op = "detect_typhoon"
    /\ ret.detected
    /\ ObsWindSpeed = 326 /\ ObsPressure = 9799
    /\ ret.severity = 2 /\ ret.level = "tropical storm"

\* C3: detect_heavy_rain detects exactly when precipitation >= 50 (absent is
\* 0); a detection has severity 4 for precipitation >= 100 and 3 otherwise,
\* never 1 or 2.
C3_HeavyRain ==
    op = "detect_heavy_rain" =>
        /\ ret.detected <=> (ObsPrecipitation >= 500)
        /\ ret.detected =>
             /\ ret.severity = (IF ObsPrecipitation >= 1000 THEN 4 ELSE 3)
             /\ ret.severity \notin {1, 2}

C3_Witness ==
    /\ op = "detect_heavy_rain"
    /\ ObsPrecipitation = 500
    /\ ret.detected /\ ret.severity = 3 /\ ret.level = "severe rainstorm"

\* C4: detect_high_temperature detects exactly when temperature >= 37 (absent
\* is 25); severity is 4 from 40, 3 from 38 up to 40, 2 from 37 up to 38.
C4_HighTemperature ==
    op = "detect_high_temperature" =>
        /\ ret.detected <=> (ObsTemperature >= 370)
        /\ ret.detected =>
             ret.severity = (IF ObsTemperature >= 400 THEN 4
                             ELSE IF ObsTemperature >= 380 THEN 3 ELSE 2)

C4_Witness ==
    /\ op = "detect_high_temperature"
    /\ ObsTemperature = 380
    /\ ret.detected /\ ret.severity = 3

\* C5: detect_low_temperature detects exactly when temperature <= -10 (absent
\* is 25); severity is 4 down from -20, 3 in (-20, -15], 2 in (-15, -10].
C5_LowTemperature ==
    op = "detect_low_temperature" =>
        /\ ret.detected <=> (ObsTemperature <= -100)
        /\ ret.detected =>
             ret.severity = (IF ObsTemperature <= -200 THEN 4
                             ELSE IF ObsTemperature <= -150 THEN 3 ELSE 2)

C5_Witness ==
    /\ op = "detect_low_temperature"
    /\ ObsTemperature = -100
    /\ ret.detected /\ ret.severity = 2

\* C6: detect_heavy_snow detects exactly when snowfall >= 10 (absent is 0);
\* severity is 4 from 30, 3 from 20 up to 30, 2 from 10 up to 20, never 1.
C6_HeavySnow ==
    op = "detect_heavy_snow" =>
        /\ ret.detected <=> (ObsSnowfall >= 100)
        /\ ret.detected =>
             /\ ret.severity = (IF ObsSnowfall >= 300 THEN 4
                                ELSE IF ObsSnowfall >= 200 THEN 3 ELSE 2)
             /\ ret.severity /= 1

C6_Witness ==
    /\ op = "detect_heavy_snow"
    /\ ObsSnowfall = 200
    /\ ret.detected /\ ret.severity = 3

\* C7: the result of detect_all_extremes has has_extreme true exactly when its
\* detections list is non-empty, and max_severity equal to the largest
\* severity among its detections, or 0 when there are none.
C7_ResultAssembly ==
    op = "detect_all_extremes" =>
        LET ds == ret.detections
        IN  /\ ret.has_extreme <=> (Len(ds) > 0)
            /\ Len(ds) = 0 => ret.max_severity = 0
            /\ Len(ds) > 0 =>
                 /\ \E i \in 1..Len(ds) : ds[i].severity = ret.max_severity
                 /\ \A i \in 1..Len(ds) : ds[i].severity <= ret.max_severity

C7_Witness ==
    /\ op = "detect_all_extremes"
    /\ Len(ret.detections) = 3
    /\ [i \in 1..3 |-> ret.detections[i].severity] = <<2, 4, 3>>
    /\ ret.has_extreme
    /\ ret.max_severity = 4


----------------------------------------------------------------------------
(* Properties of the alert system, checked under Spec *)

\* C8: issue_alert on a detection result whose has_extreme is false or absent
\* returns the issued=false marker and leaves the alert history, the console
\* sink and the alert files as they were.
C8_NoExtremeNoEffect ==
    [][ ( /\ op' = "issue_alert"
          /\ ( "has_extreme" \notin DOMAIN detection_result'
               \/ ~detection_result'["has_extreme"] ) )
        => ( /\ "issued" \in DOMAIN ret'
             /\ ret'["issued"] = FALSE
             /\ alert_history' = alert_history
             /\ console' = console
             /\ files' = files ) ]_vars

C8_Witness ==
    /\ op = "issue_alert"
    /\ "has_extreme" \notin DOMAIN detection_result
    /\ Len(detection_result["detections"]) > 0
    /\ ret = NotIssued
    /\ Len(alert_history) = 1
    /\ Len(console) = 1
    /\ files /= {}

\* C9: every issued bulletin's level is the max_severity it was built from
\* clamped into 1..4 (an absent max_severity counts as 1), so it lies in 1..4
\* and its level label is never the 'unknown level' fallback.
Clamp14(n) == IF n < 1 THEN 1 ELSE IF n > 4 THEN 4 ELSE n

C9_LevelClamped ==
    /\ \A i \in 1..Len(alert_history) :
         /\ alert_history[i].level \in 1..4
         /\ alert_history[i].level = Clamp14(alert_history[i].severity)
         /\ alert_history[i].level_name /= "unknown level"
    /\ ( /\ op = "issue_alert"
         /\ "has_extreme" \in DOMAIN detection_result
         /\ detection_result["has_extreme"] )
       => ret.level =
            (IF "max_severity" \in DOMAIN detection_result
               THEN Clamp14(detection_result["max_severity"]) ELSE 1)

C9_Witness ==
    /\ Len(alert_history) = 2
    /\ alert_history[1].severity = -1 /\ alert_history[1].level = 1
    /\ alert_history[2].severity = 5 /\ alert_history[2].level = 4
    /\ op = "issue_alert"
    /\ ret = alert_history[2]

\* C10: any two bulletins issued by the same WeatherAlertSystem in one run
\* have different alert_id values, however little time passes between the
\* two issue_alert calls.
C10_AlertIdsDistinct ==
    \A i, j \in 1..Len(alert_history) :
        i /= j => alert_history[i].alert_id /= alert_history[j].alert_id

\* the detection result of the last issue_alert call had has_extreme true
IssuedLast ==
    /\ op = "issue_alert"
    /\ "has_extreme" \in DOMAIN detection_result
    /\ detection_result["has_extreme"]

\* C11: with the file sink enabled, for every bulletin in the alert history
\* the structured record stored under that bulletin's id, when reloaded, has
\* the bulletin's level, number of events and message text.
C11_FileRoundTrip ==
    alert_config["enable_file"] =>
        \A i \in 1..Len(alert_history) :
            \E f \in files :
                /\ f.path = <<alert_history[i].alert_id, "json">>
                /\ load_json(f.content).level = alert_history[i].level
                /\ Len(load_json(f.content).events) = Len(alert_history[i].events)
                /\ load_json(f.content).message = alert_history[i].message

\* C12: the suggestions list of an issued bulletin holds each distinct
\* suggestion string exactly once.
C12_SuggestionsDistinct ==
    \A i \in 1..Len(alert_history) :
        \A j, k \in 1..Len(alert_history[i].suggestions) :
            j /= k => alert_history[i].suggestions[j] /= alert_history[i].suggestions[k]

\* C13: an issued bulletin has one event per detection of the detection
\* result, in the same order, each carrying that detection's hazard label,
\* severity, description and tier label; a single heavy_snow detection of
\* severity 3 gives level 3 and exactly one event.
C13_EventsMirrorDetections ==
    IssuedLast =>
        LET ds == detection_result["detections"]
        IN  /\ Len(ret.events) = Len(ds)
            /\ \A i \in 1..Len(ds) :
                 /\ ret.events[i].type = ds[i]["type_name"]
                 /\ ret.events[i].severity = ds[i]["severity"]
                 /\ ret.events[i].description = ds[i]["description"]
                 /\ "level" \in DOMAIN ds[i] => ret.events[i].level = ds[i]["level"]
            /\ ( /\ Len(ds) = 1
                 /\ ds[1]["type_name"] = "heavy snow"
                 /\ ds[1]["severity"] = 3 )
               => (ret.level = 3 /\ Len(ret.events) = 1)

C13_Witness ==
    /\ IssuedLast
    /\ Len(detection_result["detections"]) = 1
    /\ detection_result["detections"][1]["type_name"] = "heavy snow"
    /\ detection_result["detections"][1]["severity"] = 3
    /\ ret.level = 3
    /\ Len(ret.events) = 1
    /\ ret.events[1].type = "heavy snow"
    /\ ret.events[1].level = "severe blizzard"

----------------------------------------------------------------------------
(* Properties of the alert history, checked under SpecHistory *)

\* C14: the alert history is append-only: an issue_alert call with
\* has_extreme true appends exactly the returned bulletin at the tail and
\* keeps the earlier entries in order; get_alert_history and
\* generate_alert_report leave the history unchanged; only
\* clear_alert_history removes entries.
C14_AppendOnly ==
    [][ /\ ( /\ op' = "issue_alert"
             /\ "has_extreme" \in DOMAIN detection_result'
             /\ detection_result'["has_extreme"] )
           => /\ Len(alert_history') = Len(alert_history) + 1
              /\ SubSeq(alert_history', 1, Len(alert_history)) = alert_history
              /\ alert_history'[Len(alert_history')] = ret'
        /\ op' \in {"get_alert_history", "generate_alert_report"}
           => alert_history' = alert_history
        /\ Len(alert_history') < Len(alert_history)
           => op' = "clear_alert_history" ]_vars

C14_Witness ==
    /\ op = "issue_alert"
    /\ Len(alert_history) = 3
    /\ ret = alert_history[3]
    /\ alert_history[1].level = 4
    /\ alert_history[2].level = 3
    /\ alert_history[3].level = 4

\* C15: for every limit >= 1 and every history of n bulletins,
\* get_alert_history(limit) returns the last min(limit, n) bulletins issued,
\* oldest first; without an argument the limit is 10.  get_alert_history(2)
\* after 5 issued alerts returns the 4th and the 5th, in that order.
C15_LastLimitEntries ==
    op = "get_alert_history" =>
        LET limit == IF "limit" \in DOMAIN args THEN args["limit"] ELSE 10
            n == Len(alert_history)
            m == IF limit < n THEN limit ELSE n
        IN  limit >= 1 =>
              /\ Len(ret) = m
              /\ \A k \in 1..m : ret[k] = alert_history[n - m + k]

C15_Witness ==
    /\ op = "get_alert_history"
    /\ "limit" \in DOMAIN args /\ args["limit"] = 2
    /\ Len(alert_history) = 5
    /\ alert_history[4] /= alert_history[5]
    /\ alert_history[3] /= alert_history[4]
    /\ ret = <<alert_history[4], alert_history[5]>>

\* C16: on a non-empty history generate_alert_report returns total_alerts
\* equal to the history length, a level_distribution counting for each level
\* label the bulletins with that label (the counts sum to total_alerts), and
\* an event_distribution counting for each hazard label the events with that
\* label over all bulletins of the history.
RECURSIVE SumOfCounts(_)
SumOfCounts(counts) ==
    IF DOMAIN counts = {} THEN 0
    ELSE LET k == CHOOSE x \in DOMAIN counts : TRUE
         IN  counts[k] + SumOfCounts([x \in DOMAIN counts \ {k} |-> counts[x]])

EventPositions ==
    { <<i, j>> \in (1..Len(alert_history)) \X (1..4) :
        j <= Len(alert_history[i].events) }

C16_ReportCounts ==
    (op = "generate_alert_report" /\ alert_history /= <<>>) =>
        /\ ret.total_alerts = Len(alert_history)
        /\ DOMAIN ret.level_distribution =
             { alert_history[i].level_name : i \in 1..Len(alert_history) }
        /\ \A l \in DOMAIN ret.level_distribution :
             ret.level_distribution[l] =
               Cardinality({ i \in 1..Len(alert_history) : alert_history[i].level_name = l })
        /\ SumOfCounts(ret.level_distribution) = ret.total_alerts
        /\ DOMAIN ret.event_distribution =
             { alert_history[p[1]].events[p[2]].type : p \in EventPositions }
        /\ \A t \in DOMAIN ret.event_distribution :
             ret.event_distribution[t] =
               Cardinality({ p \in EventPositions :
                               alert_history[p[1]].events[p[2]].type = t })

C16_Witness ==
    /\ op = "generate_alert_report"
    /\ Len(alert_history) = 3
    /\ ret.total_alerts = 3
    /\ DOMAIN ret.level_distribution =
         {"red alert (very severe)", "orange alert (severe)"}
    /\ DOMAIN ret.event_distribution = {"heavy snow", "typhoon", "rainstorm", "heat"}
    /\ ret.level_distribution["red alert (very severe)"] = 2
    /\ ret.level_distribution["orange alert (severe)"] = 1
    /\ ret.event_distribution["heavy snow"] = 1
    /\ ret.event_distribution["typhoon"] = 2
    /\ ret.event_distribution["rainstorm"] = 2
    /\ ret.event_distribution["heat"] = 2

\* C17: generate_alert_report returns the empty-period marker (total_alerts
\* 0, a 'no alerts in the period' message, no distribution fields) exactly
\* when the history is empty at the call, also after clear_alert_history.
C17_EmptyMarkerIffEmpty ==
    op = "generate_alert_report" =>
        ( ( /\ ret.total_alerts = 0
            /\ DOMAIN ret = {"total_alerts", "message"}
            /\ ret["message"] = "no alerts in the period" )
          <=> alert_history = <<>> )

C17_Witness ==
    /\ op = "generate_alert_report"
    /\ alert_history = <<>>
    /\ ret = [total_alerts |-> 0, message |-> "no alerts in the period"]
    /\ \E f \in files : f.path[1] = "alert_report"

\* C18: clear_alert_history leaves the history empty whatever it held; on an
\* empty history get_alert_history returns the empty list for every limit,
\* and the bulletins issued afterwards are the only ones in the history.
C18_ClearEmpties ==
    [][ /\ op' = "clear_alert_history" => alert_history' = <<>>
        /\ (alert_history = <<>> /\ op' = "get_alert_history") => ret' = <<>>
        /\ ( /\ alert_history = <<>>
             /\ op' = "issue_alert"
             /\ "has_extreme" \in DOMAIN detection_result'
             /\ detection_result'["has_extreme"] )
           => alert_history' = <<ret'>> ]_vars

C18_Witness ==
    /\ op = "clear_alert_history"
    /\ alert_history = <<>>
    /\ \E f \in files : f.path[1] = "alert_report"

----------------------------------------------------------------------------
(* Missing observation fields, checked under SpecDetect *)

FieldDefaults ==
    [ temperature |-> 250, wind_speed |-> 0, pressure |-> 10130,
      precipitation |-> 0, snowfall |-> 0 ]

\* the observation with every absent weather field set to its default
with_defaults(wd) ==
    [ k \in DOMAIN wd \cup DOMAIN FieldDefaults |->
        IF k \in DOMAIN wd THEN wd[k] ELSE FieldDefaults[k] ]

\* C20: detect_all_extremes on an observation with missing fields returns
\* what it returns on the same observation with each absent field set to its
\* default (temperature 25, wind_speed 0, pressure 1013, precipitation 0,
\* snowfall 0); an observation with none of the weather fields yields zero
\* detections, has_extreme false and max_severity 0.
C20_MissingFieldsAreDefaults ==
    op = "detect_all_extremes" =>
        /\ \E forecast_data \in Forecasts, outcome \in ApiOutcomes :
             ret = [ detect_all_extremes(with_defaults(weather_data), forecast_data,
                                         outcome, now)
                       EXCEPT !.current_weather = weather_data ]
        /\ DOMAIN weather_data \cap DOMAIN FieldDefaults = {} =>
             /\ ret.detections = <<>>
             /\ ret.has_extreme = FALSE
             /\ ret.max_severity = 0

C20_Witness ==
    /\ op = "detect_all_extremes"
    /\ "pressure" \notin DOMAIN weather_data
    /\ "temperature" \notin DOMAIN weather_data
    /\ "snowfall" \in DOMAIN weather_data
    /\ ret.has_extreme
    /\ Len(ret.detections) = 1

----------------------------------------------------------------------------
(* Properties of the sinks, checked under SpecSinks *)

Logged(line) == \E i \in 1..Len(log) : log[i] = line

\* C19: during issue_alert each of the four sinks is invoked exactly when its
\* own toggle is enabled, whatever the other toggles are: the console echo,
\* the two files, the email and the SMS 'not configured' warnings; the
\* bulletin returned and the history appended to are those built from the
\* detection result and the clock alone, the same under every toggle setting.
C19_SinksFollowToggles ==
    [][ ( /\ op' = "issue_alert"
          /\ now' = now
          /\ "has_extreme" \in DOMAIN detection_result'
          /\ detection_result'["has_extreme"] )
        => /\ console' = ( IF alert_config["enable_console"]
                             THEN console \o <<ret'.message>> ELSE console )
           /\ alert_config["enable_file"] =>
                /\ \E f \in files' : f.path = <<ret'.alert_id, "json">>
                /\ \E f \in files' : /\ f.path = <<ret'.alert_id, "txt">>
                                     /\ f.content = ret'.message
           /\ ~alert_config["enable_file"] => files' = files
           /\ alert_config["enable_email"] <=>
                (\E i \in 1..Len(log') : log'[i] = <<"WARNING", "email alerts not configured">>)
           /\ alert_config["enable_sms"] <=>
                (\E i \in 1..Len(log') : log'[i] = <<"WARNING", "sms alerts not configured">>)
           /\ ret' = _create_alert_message(detection_result', now)
           /\ alert_history' = alert_history \o <<ret'>> ]_vars

C19_Witness ==
    /\ op = "issue_alert"
    /\ alert_config = [ enable_email |-> TRUE, enable_sms |-> FALSE,
                        enable_console |-> FALSE, enable_file |-> TRUE ]
    /\ alert_history = <<ret>>
    /\ console = <<>>
    /\ \E f \in files : f.path = <<ret.alert_id, "json">>
    /\ Logged(<<"WARNING", "email alerts not configured">>)
    /\ ~Logged(<<"WARNING", "sms alerts not configured">>)

----------------------------------------------------------------------------
(* Properties of the predictor, checked under SpecPredict *)

\* C21: when the remote prediction call fails, _predict_with_api returns
\* success = true with the locally generated predictions, method
\* "fallback_numerical" and the error message in api_error; when the call
\* succeeds the method is "gemini_api" and there is no api_error.
C21_PredictFallback ==
    op = "_predict_with_api" =>
        /\ ret.success = TRUE
        /\ ret.predictions = _generate_numerical_predictions(weather_data, args.horizon,
                                                             now, args.noise)
        /\ Len(ret.predictions) = Len(get_time_range(args.horizon, now))
        /\ ~args.api_result.success =>
             /\ ret.method = "fallback_numerical"
             /\ "api_error" \in DOMAIN ret
             /\ ret.api_error = args.api_result.error
        /\ args.api_result.success =>
             /\ ret.method = "gemini_api"
             /\ "api_error" \notin DOMAIN ret

C21_Witness ==
    /\ op = "_predict_with_api"
    /\ ~args.api_result.success
    /\ "api_error" \in DOMAIN ret
    /\ ret.api_error = "remote answer malformed"
    /\ Len(ret.predictions) = 4
    /\ ret.predictions[4].temperature = 250 + 3 * 6 + 20

----------------------------------------------------------------------------
(* The remote analysis inside detect_all_extremes, checked under SpecDetect *)

LocalResultKeys ==
    {"timestamp", "current_weather", "detections", "has_extreme", "max_severity"}

\* the error messages of the remote calls that failed during the operation
RemoteFailures ==
    { log[i][3] : i \in {j \in 1..Len(log) : log[j][1] = "STDOUT"} }

\* C22: when the remote classification call inside detect_all_extremes
\* fails, the result holds the locally computed detections, carries a field
\* that flags it as a fallback, and carries the error message.
C22_RemoteFailureFlagged ==
    (op = "detect_all_extremes" /\ RemoteFailures /= {}) =>
        /\ \E forecast_data \in Forecasts :
             ret.detections = collect_detections(weather_data, forecast_data)
        /\ DOMAIN ret \ LocalResultKeys /= {}
        /\ \A e \in RemoteFailures :
             \E k \in DOMAIN ret \ LocalResultKeys : ret[k] = e

----------------------------------------------------------------------------
(* The report's period, checked under SpecHistory *)

ReportPeriods ==
    DateArgs \cup { [start_date |-> "2025-06-01", end_date |-> NoDate],
                    [start_date |-> NoDate, end_date |-> "2025-06-30"],
                    [start_date |-> "2031-01-01", end_date |-> "2031-01-02"] }

report_counts(report) ==
    IF "level_distribution" \in DOMAIN report
    THEN <<report.total_alerts, report.level_distribution, report.event_distribution>>
    ELSE <<report.total_alerts>>

----------------------------------------------------------------------------
(* What the forecast and the remote call can change, checked under SpecDetect *)

\* C24: for the observation at hand, detect_all_extremes returns the same
\* detections, has_extreme and max_severity whatever forecast snapshots are
\* supplied and whether the remote analysis succeeds or fails; beyond the
\* local fields the result holds at most ai_analysis, and holds it exactly
\* when the remote call succeeded.
C24_ForecastAndRemoteIrrelevant ==
    op = "detect_all_extremes" =>
        /\ DOMAIN ret \ LocalResultKeys \subseteq {"ai_analysis"}
        /\ ("ai_analysis" \in DOMAIN ret) <=> (RemoteFailures = {})
        /\ \A forecast_data \in Forecasts, outcome \in ApiOutcomes :
             LET other == detect_all_extremes(weather_data, forecast_data, outcome, now)
             IN  /\ other.detections = ret.detections
                 /\ other.has_extreme = ret.has_extreme
                 /\ other.max_severity = ret.max_severity
                 /\ DOMAIN other \ LocalResultKeys
                      = (IF outcome.success THEN {"ai_analysis"} ELSE {})

C24_Witness ==
    /\ op = "detect_all_extremes"
    /\ "ai_analysis" \in DOMAIN ret
    /\ "temperature" \in DOMAIN weather_data
    /\ weather_data["temperature"] = 369
    /\ Len(ret.detections) = 2

----------------------------------------------------------------------------
(* The order of append and dispatch, checked under SpecFailure *)

\* C25: whenever a bulletin has been echoed to the console or written to a
\* file, it is already in the alert history, even if a later sink step
\* failed.
C25_InHistoryWhenPublished ==
    /\ \A i \in 1..Len(console) :
         \E j \in 1..Len(alert_history) : alert_history[j].message = console[i]
    /\ \A f \in files :
         \E j \in 1..Len(alert_history) : alert_history[j].alert_id = f.path[1]

----------------------------------------------------------------------------
(* get_alert_history for every limit, checked under SpecHistory *)

\* C26: for every limit >= 0 and every history of n bulletins,
\* get_alert_history(limit) returns exactly min(limit, n) entries; in
\* particular get_alert_history(0) returns an empty list.
C26_ExactlyMinEntries ==
    (op = "get_alert_history" /\ "limit" \in DOMAIN args /\ args["limit"] >= 0) =>
        /\ Len(ret) = Min(args["limit"], Len(alert_history))
        /\ args["limit"] = 0 => ret = <<>>

----------------------------------------------------------------------------
(* Severity against danger, checked under SpecDetect *)

\* the severity of a detector's result, not-detected counting as 0
severity_or_0(d) == IF d.detected THEN d.severity ELSE 0

\* the observation with one field set
WithField(wd, k, v) == [x \in DOMAIN wd \cup {k} |-> IF x = k THEN v ELSE wd[x]]

\* C27: within each hazard kind the severity (not-detected = 0) never
\* decreases when the observation gets more dangerous: typhoon when
\* wind_speed rises or pressure falls, heavy_rain when precipitation rises,
\* high_temperature when temperature rises, low_temperature when
\* temperature falls, heavy_snow when snowfall rises; every severity
\* produced lies in 1..4.
C27_SeverityMonotone ==
    /\ op = "detect_typhoon" =>
         /\ \A w \in WindSpeeds : w >= ObsWindSpeed =>
              severity_or_0(detect_typhoon(WithField(weather_data, "wind_speed", w)))
                >= severity_or_0(ret)
         /\ \A p \in Pressures \cup {10130} : p <= ObsPressure =>
              severity_or_0(detect_typhoon(WithField(weather_data, "pressure", p)))
                >= severity_or_0(ret)
    /\ op = "detect_heavy_rain" =>
         \A r \in Precipitations : r >= ObsPrecipitation =>
              severity_or_0(detect_heavy_rain(WithField(weather_data, "precipitation", r)))
                >= severity_or_0(ret)
    /\ op = "detect_high_temperature" =>
         \A t \in Temperatures : t >= ObsTemperature =>
              severity_or_0(detect_high_temperature(
                              WithField(weather_data, "temperature", t), <<>>))
                >= severity_or_0(ret)
    /\ op = "detect_low_temperature" =>
         \A t \in Temperatures : t <= ObsTemperature =>
              severity_or_0(detect_low_temperature(
                              WithField(weather_data, "temperature", t), <<>>))
                >= severity_or_0(ret)
    /\ op = "detect_heavy_snow" =>
         \A s \in Snowfalls : s >= ObsSnowfall =>
              severity_or_0(detect_heavy_snow(WithField(weather_data, "snowfall", s)))
                >= severity_or_0(ret)
    /\ ( op \in {"detect_typhoon", "detect_heavy_rain", "detect_high_temperature",
                 "detect_low_temperature", "detect_heavy_snow"}
         /\ ret.detected ) => ret.severity \in 1..4

C27_Witness ==
    /\ op = "detect_low_temperature"
    /\ ObsTemperature = -150
    /\ ret.detected
    /\ ret.severity = 3
    /\ severity_or_0(detect_low_temperature(
                       WithField(weather_data, "temperature", -200), <<>>)) = 4

----------------------------------------------------------------------------
(* Bulletins built from the detector's own results, checked under SpecWorkflow *)

\* C28: the bulletin obtained by passing the result of detect_all_extremes
\* to issue_alert has a level equal to the maximum severity across its
\* events and to the result's max_severity (clamping changes nothing), that
\* level is 2, 3 or 4, and the bulletin has between 1 and 4 events.
C28_LevelIsMaxEventSeverity ==
    (op = "issue_alert" /\ "alert_id" \in DOMAIN ret) =>
        /\ ret.level = detection_result.max_severity
        /\ \E i \in 1..Len(ret.events) : ret.events[i].severity = ret.level
        /\ \A i \in 1..Len(ret.events) : ret.events[i].severity <= ret.level
        /\ ret.level \in {2, 3, 4}
        /\ Len(ret.events) \in 1..4

C28_Witness ==
    /\ op = "issue_alert"
    /\ "alert_id" \in DOMAIN ret
    /\ Len(ret.events) = 4
    /\ ret.level = 3
    /\ alert_history = <<ret>>

----------------------------------------------------------------------------
(* One detection per hazard kind, checked under SpecDetect *)

KindOrder ==
    <<"typhoon", "heavy_rain", "high_temperature", "low_temperature", "heavy_snow">>

KindPosition(kind) == CHOOSE i \in 1..Len(KindOrder) : KindOrder[i] = kind

\* what the detector of one kind returns for the observation on its own
detect_kind(kind, wd, forecast_data) ==
    IF kind = "typhoon" THEN detect_typhoon(wd)
    ELSE IF kind = "heavy_rain" THEN detect_heavy_rain(wd)
    ELSE IF kind = "high_temperature" THEN detect_high_temperature(wd, forecast_data)
    ELSE IF kind = "low_temperature" THEN detect_low_temperature(wd, forecast_data)
    ELSE detect_heavy_snow(wd)

\* C29: no observation triggers both high_temperature and low_temperature;
\* detect_all_extremes returns at most one detection per hazard kind, at
\* most four in total, in the order typhoon, heavy_rain, high_temperature,
\* low_temperature, heavy_snow, and each detection equals what the detector
\* of its kind returns for the observation on its own (every kind whose
\* detector fires is present).
C29_OnePerKindInOrder ==
    op = "detect_all_extremes" =>
        LET ds == ret.detections
            kinds == {ds[i].type : i \in 1..Len(ds)}
        IN  /\ ~({"high_temperature", "low_temperature"} \subseteq kinds)
            /\ Len(ds) <= 4
            /\ kinds \subseteq {KindOrder[i] : i \in 1..Len(KindOrder)}
            /\ \A i, j \in 1..Len(ds) :
                 i < j => KindPosition(ds[i].type) < KindPosition(ds[j].type)
            /\ \A i \in 1..Len(ds) : \A forecast_data \in Forecasts :
                 ds[i] = detect_kind(ds[i].type, weather_data, forecast_data)
            /\ \A k \in 1..Len(KindOrder) :
                 detect_kind(KindOrder[k], weather_data, <<>>).detected
                   => KindOrder[k] \in kinds

C29_Witness ==
    /\ op = "detect_all_extremes"
    /\ Len(ret.detections) = 4
    /\ ret.detections[1].type = "typhoon"
    /\ ret.detections[2].type = "heavy_rain"
    /\ ret.detections[3].type = "low_temperature"
    /\ ret.detections[4].type = "heavy_snow"

----------------------------------------------------------------------------
(* What issue_alert tells its caller, checked under SpecWorkflow *)

\* C30: the value returned by issue_alert has 'issued' true (as read by
\* alert.get('issued', False)) if and only if the call appended a bulletin
\* to the history, that is, exactly when extreme weather was detected and a
\* bulletin was published.
C30_IssuedFieldTellsOutcome ==
    [][ op' = "issue_alert" =>
          /\ Get(ret', "issued", FALSE) <=> (alert_history' = Append(alert_history, ret'))
          /\ Get(ret', "issued", FALSE) <=> Get(detection_result', "has_extreme", FALSE)
      ]_vars

====
